---- MODULE Spec2Model ----
(***************************************************************************)
(* Model of transform_vehicle_data.py: one linear pandas pipeline over a   *)
(* table of vehicle signal records.                                        *)
(*                                                                         *)
(* Representation.                                                         *)
(*   - A CSV cell is a piece of text, modelled structurally:               *)
(*       timestamp text  [form, day, hh, mm]   "2024-01-<day>T<hh>:<mm>:00"*)
(*                       form "T" / " " is the date-time separator,        *)
(*                       "junk" is text that is no date, "empty" is ""     *)
(*       numeric text    [form, whole, frac]   "<whole>.<frac>"            *)
(*                       frac counts quarters; "junk", "empty" as above    *)
(*       date text       [form, day]           "2024-01-<day>"             *)
(*   - A parsed timestamp is the number of minutes since 2024-01-01 00:00, *)
(*     NaT is the null timestamp.  A parsed number is a fixed-point        *)
(*     integer counting quarters, NaN is the null number.                  *)
(*   - Strings that are sort keys are sequences of character codes, so     *)
(*     that their order is the lexicographic order of the characters.      *)
(*   - A DataFrame is a sequence of rows; the field "index" of a row is    *)
(*     its pandas index label.                                             *)
(***************************************************************************)
EXTENDS Integers, Sequences, FiniteSets, Bags, TLC

VARIABLES
    pc,           \* the statement the script executes next
    run,          \* 1: the run on the raw file, 2: the run on the saved output
    input_file,   \* content of input_file (rows of CSV text)
    df,           \* the DataFrame df
    df_cleaned,   \* the DataFrame df_cleaned
    signals,      \* the signal names the for loop has still to visit
    reports,      \* the "Filled missing ..." lines printed, <<signal, median>>
    output_file   \* content of output_file (rows of CSV text)

vars == <<pc, run, input_file, df, df_cleaned, signals, reports, output_file>>

-----------------------------------------------------------------------------
(* Bounds and input domains *)

MaxRows == 3

NaT == -1
NaN == -1

V10 == <<86, 49, 48>>
V2  == <<86, 50>>
T1  == <<84, 49>>
T2  == <<84, 50>>

TimeText(form, day, hh, mm) == [form |-> form, day |-> day, hh |-> hh, mm |-> mm]
NumText(form, whole, frac)  == [form |-> form, whole |-> whole, frac |-> frac]
DateText(form, day)         == [form |-> form, day |-> day]

TimeA     == TimeText("T", 1, 10, 0)     \* 2024-01-01T10:00:00
TimeB     == TimeText("T", 2, 9, 30)     \* 2024-01-02T09:30:00
TimeBad   == TimeText("junk", 0, 0, 0)   \* bad-date
TimeHour  == TimeText("T", 1, 25, 0)     \* 2024-01-01T25:00:00
TimeEmpty == TimeText("empty", 0, 0, 0)

Num10    == NumText("int", 10, 0)        \* 10
Num30    == NumText("int", 30, 0)        \* 30
NumJunk  == NumText("junk", 0, 0)        \* abc
NumEmpty == NumText("empty", 0, 0)

NoDate == DateText("absent", 0)
NoHour == -1

RawRow(v, t, s, x, e, i) ==
    [vehicle_id |-> v, trip_id |-> t, signal_name |-> s, signal_value |-> x,
     event_time |-> e, ingestion_time |-> i, date |-> NoDate, hour |-> NoHour]

\* the rows an input file is drawn from; every row but the last has a valid
\* ingestion_time
RawRows ==
    { \* the signal, its value and the validity of event_time vary
      RawRow(V10, T1, "speed", Num10,    TimeA,     TimeA),
      RawRow(V10, T1, "speed", Num30,    TimeA,     TimeA),
      RawRow(V10, T1, "speed", NumEmpty, TimeA,     TimeA),
      RawRow(V10, T1, "speed", NumJunk,  TimeA,     TimeA),
      RawRow(V10, T1, "speed", Num10,    TimeBad,   TimeA),
      RawRow(V10, T1, "speed", Num30,    TimeEmpty, TimeA),
      RawRow(V10, T1, "speed", Num10,    TimeHour,  TimeA),
      RawRow(V10, T1, "temp",  Num10,    TimeA,     TimeA),
      RawRow(V10, T1, "temp",  NumEmpty, TimeA,     TimeA),
      \* the sort key varies
      RawRow(V10, T1, "speed", Num10,    TimeB,     TimeA),
      RawRow(V10, T2, "speed", Num10,    TimeA,     TimeA),
      RawRow(V2,  T1, "speed", Num10,    TimeA,     TimeA),
      RawRow(V2,  T1, "temp",  Num30,    TimeB,     TimeBad) }

RawTables == UNION { [1..n -> RawRows] : n \in 0..MaxRows }

-----------------------------------------------------------------------------
(* Helpers on sequences *)

\* lexicographic order of two strings (sequences of character codes)
RECURSIVE StrLess(_, _)
StrLess(a, b) ==
    IF b = <<>> THEN FALSE
    ELSE IF a = <<>> THEN TRUE
    ELSE IF Head(a) # Head(b) THEN Head(a) < Head(b)
    ELSE StrLess(Tail(a), Tail(b))

-----------------------------------------------------------------------------
(* Conversions *)

\* pd.to_datetime(..., errors='coerce') on one cell
to_datetime(c) ==
    IF c.form \in {"T", " "} /\ c.day \in 1..31 /\ c.hh \in 0..23 /\ c.mm \in 0..59
    THEN (c.day - 1) * 1440 + c.hh * 60 + c.mm
    ELSE NaT

\* pd.to_numeric(..., errors='coerce') on one cell
to_numeric(c) ==
    IF c.form \in {"int", "float"} /\ c.frac \in 0..3
    THEN c.whole * 4 + c.frac
    ELSE NaN

\* dt.hour taken as the hours elapsed, not the hour of the day
dt_hour_elapsed(t) == t \div 60

\* Series.dt.date and Series.dt.hour on one value
dt_date(t) == (t \div 1440) + 1
dt_hour(t) == (t % 1440) \div 60

\* to_csv on one cell of each column type
csv_datetime(t) ==
    IF t = NaT THEN TimeEmpty
    ELSE TimeText(" ", (t \div 1440) + 1, (t % 1440) \div 60, t % 60)

csv_float(x) ==
    IF x = NaN THEN NumEmpty ELSE NumText("float", x \div 4, x % 4)

csv_date(d) == DateText("date", d)

csv_row(r) ==
    [vehicle_id |-> r.vehicle_id, trip_id |-> r.trip_id,
     signal_name |-> r.signal_name, signal_value |-> csv_float(r.signal_value),
     event_time |-> csv_datetime(r.event_time),
     ingestion_time |-> csv_datetime(r.ingestion_time),
     date |-> csv_date(r.date), hour |-> r.hour]

\* pd.read_csv: the rows of the file under a RangeIndex 0..n-1
read_csv(file) ==
    [i \in 1..Len(file) |->
        [index |-> i - 1,
         vehicle_id |-> file[i].vehicle_id, trip_id |-> file[i].trip_id,
         signal_name |-> file[i].signal_name, signal_value |-> file[i].signal_value,
         event_time |-> file[i].event_time, ingestion_time |-> file[i].ingestion_time,
         date |-> file[i].date, hour |-> file[i].hour]]

-----------------------------------------------------------------------------
(* Median *)

RECURSIVE InsertValue(_, _)
InsertValue(x, s) ==
    IF s = <<>> THEN <<x>>
    ELSE IF x <= Head(s) THEN <<x>> \o s
    ELSE <<Head(s)>> \o InsertValue(x, Tail(s))

RECURSIVE SortedValues(_)
SortedValues(s) ==
    IF s = <<>> THEN <<>> ELSE InsertValue(Head(s), SortedValues(Tail(s)))

\* median(skipna=False): a null in the column makes the median null
median_keepna(column) ==
    LET vals == SortedValues(SelectSeq(column, LAMBDA x : x # NaN))
        n    == Len(vals)
    IN
    IF n = 0 \/ n # Len(column) THEN NaN
    ELSE IF n % 2 = 1 THEN vals[(n + 1) \div 2]
    ELSE (vals[n \div 2] + vals[(n \div 2) + 1]) \div 2

\* the lower middle value instead of the mean of the two middle values
median_lower(column) ==
    LET vals == SortedValues(SelectSeq(column, LAMBDA x : x # NaN))
        n    == Len(vals)
    IN
    IF n = 0 THEN NaN ELSE vals[(n + 1) \div 2]

\* Series.median(): nulls are skipped, the median of nothing is NaN
median(column) ==
    LET vals == SortedValues(SelectSeq(column, LAMBDA x : x # NaN))
        n    == Len(vals)
    IN
    IF n = 0 THEN NaN
    ELSE IF n % 2 = 1 THEN vals[(n + 1) \div 2]
    ELSE (vals[n \div 2] + vals[(n \div 2) + 1]) \div 2

\* Series.unique(): the distinct values in order of first appearance
RECURSIVE unique(_)
unique(s) ==
    IF s = <<>> THEN <<>>
    ELSE <<Head(s)>> \o unique(SelectSeq(Tail(s), LAMBDA x : x # Head(s)))

Column(frame, name) == [i \in 1..Len(frame) |-> frame[i][name]]

-----------------------------------------------------------------------------
(* Sort *)

\* the sort key without trip_id
KeyLess_no_trip(a, b) ==
    IF a.vehicle_id # b.vehicle_id THEN StrLess(a.vehicle_id, b.vehicle_id)
    ELSE a.event_time < b.event_time

\* the row a goes strictly before the row b under (vehicle_id, trip_id, event_time)
KeyLess(a, b) ==
    IF a.vehicle_id # b.vehicle_id THEN StrLess(a.vehicle_id, b.vehicle_id)
    ELSE IF a.trip_id # b.trip_id THEN StrLess(a.trip_id, b.trip_id)
    ELSE a.event_time < b.event_time

\* r goes before the rows that are equal to it: an unstable sort
RECURSIVE InsertRow_unstable(_, _)
InsertRow_unstable(r, s) ==
    IF s = <<>> THEN <<r>>
    ELSE IF ~KeyLess(Head(s), r) THEN <<r>> \o s
    ELSE <<Head(s)>> \o InsertRow_unstable(r, Tail(s))

\* r goes after every row that is not greater than it
RECURSIVE InsertRow(_, _)
InsertRow(r, s) ==
    IF s = <<>> THEN <<r>>
    ELSE IF KeyLess(r, Head(s)) THEN <<r>> \o s
    ELSE <<Head(s)>> \o InsertRow(r, Tail(s))

RECURSIVE SortFrom(_, _)
SortFrom(done, rest) ==
    IF rest = <<>> THEN done
    ELSE SortFrom(InsertRow(Head(rest), done), Tail(rest))

\* a sort that visits the rows from the last to the first: equal rows swap
sort_values_backwards(frame) ==
    SortFrom(<<>>, [i \in 1..Len(frame) |-> frame[Len(frame) + 1 - i]])

\* DataFrame.sort_values on several columns: a stable lexicographic sort
sort_values(frame) == SortFrom(<<>>, frame)

\* DataFrame.reset_index(drop=True)
reset_index(frame) ==
    [i \in 1..Len(frame) |-> [frame[i] EXCEPT !.index = i - 1]]

-----------------------------------------------------------------------------
(* The script *)

Init ==
    /\ pc = "load"
    /\ run = 1
    /\ input_file \in RawTables
    /\ df = <<>>
    /\ df_cleaned = <<>>
    /\ signals = <<>>
    /\ reports = <<>>
    /\ output_file = <<>>

\* line 11
Load ==
    /\ pc = "load"
    /\ df' = read_csv(input_file)
    /\ pc' = "event_time"
    /\ UNCHANGED <<run, input_file, df_cleaned, signals, reports, output_file>>

\* line 20
CoerceEventTime ==
    /\ pc = "event_time"
    /\ df' = [i \in 1..Len(df) |->
                [df[i] EXCEPT !.event_time = to_datetime(df[i].event_time)]]
    /\ pc' = "ingestion_time"
    /\ UNCHANGED <<run, input_file, df_cleaned, signals, reports, output_file>>

\* line 25
CoerceIngestionTime ==
    /\ pc = "ingestion_time"
    /\ df' = [i \in 1..Len(df) |->
                [df[i] EXCEPT !.ingestion_time = to_datetime(df[i].ingestion_time)]]
    /\ pc' = "signal_value"
    /\ UNCHANGED <<run, input_file, df_cleaned, signals, reports, output_file>>

\* line 28
CoerceSignalValue ==
    /\ pc = "signal_value"
    /\ df' = [i \in 1..Len(df) |->
                [df[i] EXCEPT !.signal_value = to_numeric(df[i].signal_value)]]
    /\ pc' = "dropna"
    /\ UNCHANGED <<run, input_file, df_cleaned, signals, reports, output_file>>

\* dropna on the wrong column
dropna_ingestion(frame) == SelectSeq(frame, LAMBDA r : r.ingestion_time # NaT)

\* dropna without subset: a null in any column drops the row
dropna_any(frame) ==
    SelectSeq(frame, LAMBDA r : /\ r.event_time # NaT
                                /\ r.ingestion_time # NaT
                                /\ r.signal_value # NaN)

\* line 33: DataFrame.dropna(subset=['event_time'])
dropna(frame) == SelectSeq(frame, LAMBDA r : r.event_time # NaT)

\* lines 33 and 37 (the iterator of the for loop)
DropNa ==
    /\ pc = "dropna"
    /\ df_cleaned' = dropna(df)
    /\ signals' = unique(Column(dropna(df), "signal_name"))
    /\ pc' = "impute"
    /\ UNCHANGED <<run, input_file, df, reports, output_file>>

\* a mask without the isna() term
mask_all(frame, signal) ==
    { i \in 1..Len(frame) : frame[i].signal_name = signal }

\* the rows line 41 writes
mask(frame, signal) ==
    { i \in 1..Len(frame) :
        frame[i].signal_name = signal /\ frame[i].signal_value = NaN }

\* the value line 39 computes
median_value(frame, signal) ==
    median(Column(SelectSeq(frame, LAMBDA r : r.signal_name = signal), "signal_value"))

\* the condition under which line 42 prints
Printed(frame, signal) == median_value(frame, signal) # NaN

\* lines 38-42, one iteration of the loop
Impute ==
    /\ pc = "impute"
    /\ signals # <<>>
    /\ LET signal == Head(signals)
           m      == median_value(df_cleaned, signal)
       IN  /\ df_cleaned' =
                 IF m # NaN
                 THEN [i \in 1..Len(df_cleaned) |->
                         IF i \in mask(df_cleaned, signal)
                         THEN [df_cleaned[i] EXCEPT !.signal_value = m]
                         ELSE df_cleaned[i]]
                 ELSE df_cleaned
           /\ reports' =
                 IF Printed(df_cleaned, signal)
                 THEN Append(reports, <<signal, m>>)
                 ELSE reports
    /\ signals' = Tail(signals)
    /\ UNCHANGED <<pc, run, input_file, df, output_file>>

\* lines 45-46
Derive ==
    /\ pc = "impute"
    /\ signals = <<>>
    /\ df_cleaned' = [i \in 1..Len(df_cleaned) |->
                        [df_cleaned[i] EXCEPT
                            !.date = dt_date(df_cleaned[i].event_time),
                            !.hour = dt_hour(df_cleaned[i].event_time)]]
    /\ pc' = "sort_values"
    /\ UNCHANGED <<run, input_file, df, signals, reports, output_file>>

\* line 49, sort_values
SortValues ==
    /\ pc = "sort_values"
    /\ df_cleaned' = sort_values(df_cleaned)
    /\ pc' = "reset_index"
    /\ UNCHANGED <<run, input_file, df, signals, reports, output_file>>

\* line 49, reset_index
ResetIndex ==
    /\ pc = "reset_index"
    /\ df_cleaned' = reset_index(df_cleaned)
    /\ pc' = "to_csv"
    /\ UNCHANGED <<run, input_file, df, signals, reports, output_file>>

\* line 56
Save ==
    /\ pc = "to_csv"
    /\ output_file' = [i \in 1..Len(df_cleaned) |-> csv_row(df_cleaned[i])]
    /\ pc' = "done"
    /\ UNCHANGED <<run, input_file, df, df_cleaned, signals, reports>>

\* the script is started again with the file it saved as its input
Rerun ==
    /\ pc = "done"
    /\ run = 1
    /\ run' = 2
    /\ input_file' = output_file
    /\ pc' = "load"
    /\ df' = <<>>
    /\ df_cleaned' = <<>>
    /\ signals' = <<>>
    /\ reports' = <<>>
    /\ output_file' = <<>>

Next ==
    \/ Load
    \/ CoerceEventTime
    \/ CoerceIngestionTime
    \/ CoerceSignalValue
    \/ DropNa
    \/ Impute
    \/ Derive
    \/ SortValues
    \/ ResetIndex
    \/ Save
    \/ Rerun

Spec == Init /\ [][Next]_vars

-----------------------------------------------------------------------------
(* Vocabulary of the properties *)

Rows(t) == 1..Len(t)

\* the filter has run
Filtered == pc \in {"impute", "sort_values", "reset_index", "to_csv", "done"}

\* the filter has run and the index labels are still the positions in the input
Labelled == pc \in {"impute", "sort_values", "reset_index"}

\* the imputation loop has finished and the index labels are still the input's
Imputed == pc \in {"sort_values", "reset_index"}

\* the sort has run
Sorted == pc \in {"reset_index", "to_csv", "done"}

\* input row j has an event_time that parses
Retained(j) == to_datetime(input_file[j].event_time) # NaT

RetainedRows == { j \in Rows(input_file) : Retained(j) }

\* the number in the signal_value cell of input row j, NaN when there is none
Val(j) == to_numeric(input_file[j].signal_value)

\* the retained input rows of one signal that carry a number
Part(s) ==
    { j \in RetainedRows : input_file[j].signal_name = s /\ Val(j) # NaN }

\* x is the k-th smallest of the numbers of P
IsKth(x, P, k) ==
    /\ \E j \in P : Val(j) = x
    /\ Cardinality({ j \in P : Val(j) < x }) < k
    /\ k <= Cardinality({ j \in P : Val(j) <= x })

\* m is the standard median of the numbers of the non-empty P
IsMedian(m, P) ==
    LET n == Cardinality(P)
    IN  IF n % 2 = 1 THEN IsKth(m, P, (n + 1) \div 2)
        ELSE \E a, b \in { Val(j) : j \in P } :
                /\ IsKth(a, P, n \div 2)
                /\ IsKth(b, P, (n \div 2) + 1)
                /\ 2 * m = a + b

\* x is the signal_value the output is to hold for input row j
IsExpected(x, j) ==
    IF Val(j) # NaN THEN x = Val(j)
    ELSE IF Part(input_file[j].signal_name) = {} THEN x = NaN
    ELSE IsMedian(x, Part(input_file[j].signal_name))

\* (v1, t1, e1) <= (v2, t2, e2) in lexicographic order
KeyLeq(v1, t1, e1, v2, t2, e2) ==
    \/ StrLess(v1, v2)
    \/ v1 = v2 /\ StrLess(t1, t2)
    \/ v1 = v2 /\ t1 = t2 /\ e1 <= e2

SameKey(a, b) ==
    /\ a.vehicle_id = b.vehicle_id
    /\ a.trip_id = b.trip_id
    /\ a.event_time = b.event_time

\* the columns of a row that no stage after the coercions may write
Carried(r) ==
    <<r.vehicle_id, r.trip_id, r.signal_name, r.event_time, r.ingestion_time>>

-----------------------------------------------------------------------------
(* Properties *)

\* C1: no row of the filtered table, of the final table or of the saved file
\* has a null event_time.
C1_NoNullEventTime ==
    /\ Filtered => \A k \in Rows(df_cleaned) : df_cleaned[k].event_time # NaT
    /\ pc = "done" =>
          \A k \in Rows(output_file) :
              /\ output_file[k].event_time.form # "empty"
              /\ to_datetime(output_file[k].event_time) # NaT

C1_Witness ==
    /\ pc = "done" /\ run = 1
    /\ Len(output_file) >= 1
    /\ \E j \in Rows(input_file) : input_file[j].event_time = TimeBad
    /\ \E j \in Rows(input_file) : input_file[j].event_time = TimeEmpty

\* C2: the output has as many rows as the input has rows with a parseable
\* event_time, and each such input row is in the filtered table exactly once,
\* whatever its signal_value and ingestion_time are.
C2_RowCount ==
    /\ Filtered => Len(df_cleaned) = Len(input_file)
                     - Cardinality({ j \in Rows(input_file) : ~Retained(j) })
    /\ Labelled =>
          \A j \in RetainedRows :
              Cardinality({ k \in Rows(df_cleaned) : df_cleaned[k].index = j - 1 }) = 1
    /\ pc = "done" => Len(output_file) = Cardinality(RetainedRows)

C2_Witness ==
    /\ pc = "done" /\ run = 1
    /\ Len(input_file) = 3 /\ Len(output_file) = 2
    /\ \E j \in RetainedRows : Val(j) = NaN
    /\ \E j \in RetainedRows : to_datetime(input_file[j].ingestion_time) = NaT

\* C3: consecutive rows of the sorted table, and of the saved file, are in
\* ascending lexicographic order of (vehicle_id, trip_id, event_time).
C3_SortedOutput ==
    /\ Sorted =>
          \A k \in Rows(df_cleaned) \ {Len(df_cleaned)} :
              KeyLeq(df_cleaned[k].vehicle_id, df_cleaned[k].trip_id,
                     df_cleaned[k].event_time,
                     df_cleaned[k + 1].vehicle_id, df_cleaned[k + 1].trip_id,
                     df_cleaned[k + 1].event_time)
    /\ pc = "done" =>
          \A k \in Rows(output_file) \ {Len(output_file)} :
              KeyLeq(output_file[k].vehicle_id, output_file[k].trip_id,
                     to_datetime(output_file[k].event_time),
                     output_file[k + 1].vehicle_id, output_file[k + 1].trip_id,
                     to_datetime(output_file[k + 1].event_time))

C3_Witness ==
    /\ pc = "done" /\ run = 1
    /\ Len(output_file) = 3
    /\ input_file[1].vehicle_id = V2
    /\ input_file[2].trip_id = T2
    /\ input_file[3].event_time = TimeB
    /\ output_file[1].trip_id = T1 /\ output_file[2].trip_id = T2
    /\ output_file[3].vehicle_id = V2

\* C4: after the sort, rows with equal keys are in the order of their input
\* positions, and after the renumbering row k has the index k - 1.
C4_StableSort ==
    /\ pc = "reset_index" =>
          \A k1, k2 \in Rows(df_cleaned) :
              (k1 < k2 /\ SameKey(df_cleaned[k1], df_cleaned[k2]))
                  => df_cleaned[k1].index < df_cleaned[k2].index
    /\ pc \in {"to_csv", "done"} =>
          \A k \in Rows(df_cleaned) : df_cleaned[k].index = k - 1

C4_Witness ==
    /\ pc = "to_csv" /\ run = 1
    /\ Len(df_cleaned) = 3 /\ Len(df) = 3
    /\ df[1].trip_id = T2
    /\ SameKey(df_cleaned[1], df_cleaned[2])
    /\ df_cleaned[1].signal_name # df_cleaned[2].signal_name

\* C5 as stated: a signal_value of the output is null only if no row of the
\* input table with the same signal_name, dropped rows included, has a number.
C5_NullOnlyIfNoValueInInput ==
    pc = "done" =>
        \A k \in Rows(output_file) :
            output_file[k].signal_value.form = "empty" =>
                \A j \in Rows(input_file) :
                    input_file[j].signal_name = output_file[k].signal_name
                        => Val(j) = NaN

\* C5 amended: a signal_value of the output is null only if no retained row
\* with the same signal_name has a number.
C5_NullOnlyIfNoValueRetained ==
    pc = "done" =>
        \A k \in Rows(output_file) :
            output_file[k].signal_value.form = "empty" =>
                Part(output_file[k].signal_name) = {}

C5_Witness ==
    /\ pc = "done" /\ run = 1
    /\ \E k \in Rows(output_file) :
          /\ output_file[k].signal_value.form = "empty"
          /\ \E j \in Rows(input_file) :
                /\ input_file[j].signal_name = output_file[k].signal_name
                /\ Val(j) # NaN
    /\ \E k \in Rows(output_file) : output_file[k].signal_value.form = "float"

\* C6: a retained row whose signal_value is null after the coercion ends with
\* the standard median of the numbers of the retained rows of its signal_name,
\* and stays null when there is no such number; the saved file holds exactly
\* these values.
C6_MedianImputation ==
    /\ Imputed =>
          \A k \in Rows(df_cleaned) :
              Val(df_cleaned[k].index + 1) = NaN
                  => IsExpected(df_cleaned[k].signal_value, df_cleaned[k].index + 1)
    /\ pc = "done" =>
          /\ Len(output_file) = Cardinality(RetainedRows)
          /\ \A k \in Rows(output_file) :
                LET s == output_file[k].signal_name
                    x == to_numeric(output_file[k].signal_value)
                IN  Cardinality({ i \in Rows(output_file) :
                                    /\ output_file[i].signal_name = s
                                    /\ to_numeric(output_file[i].signal_value) = x })
                    = Cardinality({ j \in RetainedRows :
                                    /\ input_file[j].signal_name = s
                                    /\ IsExpected(x, j) })

C6_Witness ==
    /\ pc = "done" /\ run = 1
    /\ Len(input_file) = 3 /\ Len(output_file) = 3
    /\ \E j \in Rows(input_file) : input_file[j].signal_value = Num10
    /\ \E j \in Rows(input_file) : input_file[j].signal_value = Num30
    /\ \E j \in Rows(input_file) : input_file[j].signal_value = NumEmpty
    /\ \E k \in Rows(output_file) : output_file[k].signal_value = NumText("float", 20, 0)

\* C7: in every row of the final table date and hour are the calendar date
\* and the hour of the day (0..23) of the row's event_time, and so they are in
\* the saved file.
C7_DerivedColumns ==
    /\ pc \in {"sort_values", "reset_index", "to_csv", "done"} =>
          \A k \in Rows(df_cleaned) :
              /\ df_cleaned[k].hour \in 0..23
              /\ \E mm \in 0..59 :
                    df_cleaned[k].event_time
                        = (df_cleaned[k].date - 1) * 1440 + df_cleaned[k].hour * 60 + mm
    /\ pc = "done" =>
          \A k \in Rows(output_file) :
              /\ output_file[k].date = DateText("date", output_file[k].event_time.day)
              /\ output_file[k].hour = output_file[k].event_time.hh
              /\ output_file[k].hour \in 0..23

C7_Witness ==
    /\ pc = "done" /\ run = 1
    /\ \E k \in Rows(output_file) :
          output_file[k].date = DateText("date", 2) /\ output_file[k].hour = 9
    /\ \E k \in Rows(output_file) :
          output_file[k].date = DateText("date", 1) /\ output_file[k].hour = 10

\* C8: the run on the saved file drops no row, fills no value and saves a file
\* equal to its input.
C8_Idempotent ==
    /\ (run = 2 /\ Filtered) => Len(df_cleaned) = Len(input_file)
    /\ (run = 2 /\ Labelled) =>
          \A k \in Rows(df_cleaned) :
              df_cleaned[k].signal_value = df[df_cleaned[k].index + 1].signal_value
    /\ (run = 2 /\ pc = "done") => output_file = input_file

C8_Witness ==
    /\ run = 2 /\ pc = "done"
    /\ Len(output_file) = 3
    /\ SameKey(output_file[1], output_file[2])
    /\ output_file[1].signal_name # output_file[2].signal_name
    /\ \E k \in Rows(output_file) : output_file[k].signal_value = NumEmpty
    /\ \E k \in Rows(output_file) : output_file[k].signal_value = NumText("float", 10, 0)

\* C9 as stated: a signal is reported if and only if a null signal_value of
\* its partition was filled, that is the partition of the filtered table has
\* a null and has a number.
C9_ReportIffFilled ==
    pc = "done" =>
        \A j \in RetainedRows :
            (\E n \in Rows(reports) : reports[n][1] = input_file[j].signal_name)
            <=> /\ Part(input_file[j].signal_name) # {}
                /\ \E i \in RetainedRows :
                      /\ input_file[i].signal_name = input_file[j].signal_name
                      /\ Val(i) = NaN

\* C10: every row of the filtered table is one retained row of df with the
\* same vehicle_id, trip_id, signal_name, event_time and ingestion_time and,
\* where df has a number, the same signal_value; no two rows come from the
\* same row of df; the final table carries the same rows.
C10_Frame ==
    /\ Labelled =>
          /\ \A k \in Rows(df_cleaned) :
                LET j == df_cleaned[k].index + 1
                IN  /\ j \in Rows(df)
                    /\ df[j].event_time # NaT
                    /\ Carried(df_cleaned[k]) = Carried(df[j])
                    /\ df[j].signal_value # NaN
                          => df_cleaned[k].signal_value = df[j].signal_value
          /\ \A k1, k2 \in Rows(df_cleaned) :
                df_cleaned[k1].index = df_cleaned[k2].index => k1 = k2
          /\ Len(df_cleaned) = Cardinality({ j \in Rows(df) : df[j].event_time # NaT })
    /\ pc \in {"to_csv", "done"} =>
          /\ Len(df_cleaned) = Cardinality({ j \in Rows(df) : df[j].event_time # NaT })
          /\ \A k \in Rows(df_cleaned) :
                Cardinality({ i \in Rows(df_cleaned) :
                                Carried(df_cleaned[i]) = Carried(df_cleaned[k]) })
                = Cardinality({ j \in Rows(df) :
                                /\ df[j].event_time # NaT
                                /\ Carried(df[j]) = Carried(df_cleaned[k]) })
          /\ \A j \in Rows(df) :
                (df[j].event_time # NaT /\ df[j].signal_value # NaN) =>
                    Cardinality({ i \in Rows(df) :
                                    /\ df[i].event_time # NaT
                                    /\ df[i].signal_value = df[j].signal_value
                                    /\ Carried(df[i]) = Carried(df[j]) })
                    <= Cardinality({ k \in Rows(df_cleaned) :
                                    /\ df_cleaned[k].signal_value = df[j].signal_value
                                    /\ Carried(df_cleaned[k]) = Carried(df[j]) })

C10_Witness ==
    /\ pc = "to_csv" /\ run = 1
    /\ Len(df) = 3 /\ Len(df_cleaned) = 2
    /\ df_cleaned[1].index = 0 /\ df_cleaned[2].index = 1
    /\ df[3].signal_value = NaN /\ df[3].event_time # NaT
    /\ df[1].signal_value # NaN /\ df[1].signal_name = df[3].signal_name
====
